---- MODULE Spec2Model ----
(***************************************************************************)
(* A model of p-map (src/unnamed/part_002): pMap, the batch scheduler, and *)
(* pMapIterable, the streaming scheduler.                                  *)
(*                                                                         *)
(* Every `await` of the source is a suspension point: the code between two *)
(* suspension points is one action.  Continuations that are ready at the   *)
(* same time may run in any order, with one exception: the pulls issued    *)
(* against the source (iterator.next()) are answered in the order in which *)
(* they were issued, which is what a synchronous iterator (one microtask   *)
(* tick per await) and an async generator (a request queue) both do.       *)
(*                                                                         *)
(* The source is a finite list of entries, one per pull, followed by       *)
(* end-of-source for ever:                                                 *)
(*   "V"  an item whose transformation returns a value (the item itself),  *)
(*   "S"  an item whose transformation returns pMapSkip,                   *)
(*   "F"  an item whose transformation throws / rejects,                   *)
(*   "R"  an item that is a promise which rejects,                         *)
(*   "T"  the pull itself throws (iterator.next() throws or rejects).      *)
(* The item pulled at position p (1-based) is the number p.                *)
(* What an "F" or "R" entry throws is an Error, or, at the positions in    *)
(* falsyErrors, a falsy value (undefined, null, 0, ''): pMapIterable tests *)
(* the truthiness of what it caught, pMap never does.                      *)
(*                                                                         *)
(* The numbers of the model are integers and Infinity; an argument that is *)
(* no iterable or no function is a flag of the call.                       *)
(***************************************************************************)
EXTENDS Integers, Sequences, FiniteSets, TLC

\* ------------------------------------------------------------- bounds
MaxItems == 2
MaxConcurrency == 2
MaxStreamItems == 3

\* Number.POSITIVE_INFINITY: larger than every count the model can reach.
Infinity == 2 * (MaxItems + MaxStreamItems) + MaxConcurrency + 8

\* The value of the symbol pMapSkip: distinct from every item value (1, 2, ...).
pMapSkip == 0

\* What reading a hole of the sparse `result` array gives.
undefined == -1

Entries == {"V", "S", "F", "R", "T"}

Sources == UNION {[1..n -> Entries] : n \in 0..MaxItems}

StreamSources == UNION {[1..n -> Entries] : n \in 0..MaxStreamItems}

Concurrencies == (1..MaxConcurrency) \cup {Infinity}

Backpressures == (1..(MaxConcurrency + 1)) \cup {Infinity}

\* Every number a caller may pass, the ones validation refuses included.
AnyConcurrencies == (0..MaxConcurrency) \cup {Infinity}

AnyBackpressures == (0..(MaxConcurrency + 1)) \cup {Infinity}

VARIABLES
    \* the arguments of the call
    iterable,        \* the source: a sequence of entries
    falsyErrors,     \* the positions whose item or mapper throws a falsy value
    inputIsIterable, \* the input has Symbol.iterator or Symbol.asyncIterator
    mapperIsFunction,\* typeof mapper === "function"
    concurrency,
    backpressure,    \* pMapIterable only
    stopOnError,     \* pMap only
    signal,          \* pMap only: "none" | "idle" | "aborted"
    \* pMap's closure
    result,          \* index -> value written (a sparse array)
    errors,
    skippedIndexesMap,
    isRejected,
    isResolved,
    isIterableDone,
    resolvingCount,
    currentIndex,
    pulled,          \* the number of iterator.next() calls issued so far
    pending,         \* the `await iterator.next()` not yet answered, oldest first
    thrown,          \* the next() calls that rejected and whose caller has not resumed
    runner,          \* the runner loop: [pc, i]
    tasks,           \* index -> [pc, pos]: the detached task units
    settled,         \* the promise pMap returned
    listening,       \* signalListener is registered on the signal
    \* observations of the run (history)
    abortedAtCall,   \* the signal was already aborted when pMap was called
    failures,        \* the failures, in the order they were caught
    overtaken,       \* some mapper has returned before the mapper of an earlier item
    \* pMapIterable's generator
    promises,        \* the queue of handles, oldest first (a handle is its pull position)
    handles,         \* pull position -> [pc, idx, res]: the promise of each spawn
    runningMappersCount,
    isDone,
    index,
    itPulled,        \* the number of iterator.next() calls issued so far
    itPending,       \* the `await iterator.next()` not yet answered, oldest first
    consumer,        \* the generator body: [pc, error]
    yielded,         \* the values yielded so far
    passed           \* some mapper has returned before the mapper of an earlier item

mapVars == <<result, errors, skippedIndexesMap, isRejected, isResolved,
             isIterableDone, resolvingCount, currentIndex, pulled, pending,
             thrown, runner, tasks, settled, listening, abortedAtCall, failures,
             overtaken>>

argVars == <<iterable, falsyErrors, inputIsIterable, mapperIsFunction, concurrency,
             backpressure, stopOnError, signal>>

iterVars == <<promises, handles, runningMappersCount, isDone, index, itPulled,
              itPending, consumer, yielded, passed>>

vars == <<argVars, mapVars, iterVars>>

\* ------------------------------------------------------------- values
Error(kind, pos) == [kind |-> kind, pos |-> pos]

AbortReason == Error("abort", 0)

AggregateError == Error("aggregate", 0)

\* The TypeError of the n-th validation: 1 input, 2 mapper, 3 concurrency,
\* 4 backpressure.
TypeError(n) == Error("TypeError", n)

Pending == [state |-> "pending", value |-> <<>>, reason |-> Error("none", 0), errors |-> <<>>]

Fulfilled(value) ==
    [state |-> "fulfilled", value |-> value, reason |-> Error("none", 0), errors |-> <<>>]

Rejected(reason, errs) ==
    [state |-> "rejected", value |-> <<>>, reason |-> reason, errors |-> errs]

\* The answer to the pull issued at position pos: an entry, or "done".
SourceAt(src, pos) == IF pos <= Len(src) THEN src[pos] ELSE "done"

\* n < limit, where limit may be Infinity
Below(n, limit) == limit = Infinity \/ n < limit

\* Number.isSafeInteger on the numbers of the model: Infinity is no integer.
isSafeInteger(n) == n \in Int /\ n # Infinity

\* A variant that takes 0 for a valid concurrency.
validConcurrencyFromZero(c) == (isSafeInteger(c) /\ c >= 0) \/ c = Infinity

validConcurrency(c) == (isSafeInteger(c) /\ c >= 1) \/ c = Infinity

validBackpressure(b, c) == (isSafeInteger(b) /\ b >= c) \/ b = Infinity

\* The validations of pMap in source order: the number of the first one that
\* throws, 0 when none does.
pMapValidation ==
    CASE ~inputIsIterable -> 1
      [] ~mapperIsFunction -> 2
      [] ~validConcurrency(concurrency) -> 3
      [] OTHER -> 0

\* The validations of pMapIterable in source order.
pMapIterableValidation ==
    CASE ~inputIsIterable -> 1
      [] ~mapperIsFunction -> 2
      [] ~validConcurrency(concurrency) -> 3
      [] ~validBackpressure(backpressure, concurrency) -> 4
      [] OTHER -> 0

\* ------------------------------------------------------------- pMap
Cur ==
    [result |-> result, errors |-> errors, skippedIndexesMap |-> skippedIndexesMap,
     isRejected |-> isRejected, isResolved |-> isResolved,
     isIterableDone |-> isIterableDone, resolvingCount |-> resolvingCount,
     currentIndex |-> currentIndex, pulled |-> pulled, pending |-> pending,
     thrown |-> thrown, runner |-> runner, tasks |-> tasks, settled |-> settled,
     listening |-> listening, abortedAtCall |-> abortedAtCall,
     failures |-> failures, overtaken |-> overtaken]

Commit(st) ==
    /\ result' = st.result
    /\ errors' = st.errors
    /\ skippedIndexesMap' = st.skippedIndexesMap
    /\ isRejected' = st.isRejected
    /\ isResolved' = st.isResolved
    /\ isIterableDone' = st.isIterableDone
    /\ resolvingCount' = st.resolvingCount
    /\ currentIndex' = st.currentIndex
    /\ pulled' = st.pulled
    /\ pending' = st.pending
    /\ thrown' = st.thrown
    /\ runner' = st.runner
    /\ tasks' = st.tasks
    /\ settled' = st.settled
    /\ listening' = st.listening
    /\ abortedAtCall' = st.abortedAtCall
    /\ failures' = st.failures
    /\ overtaken' = st.overtaken

\* resolve_ / reject_ of the promise: the first settlement stands.
Settle(st, outcome) ==
    IF st.settled.state = "pending" THEN [st EXCEPT !.settled = outcome] ELSE st

\* cleanup(): signal?.removeEventListener("abort", signalListener)
cleanup(st) == [st EXCEPT !.listening = FALSE]

\* reject() as it would be if a later rejection replaced the settled outcome.
rejectLastWins(st, reason, errs) ==
    cleanup([st EXCEPT !.isRejected = TRUE, !.isResolved = TRUE,
                       !.settled = Rejected(reason, errs)])

\* reject() as it would be if it did not latch isResolved / isRejected.
rejectNoLatch(st, reason, errs) == cleanup(Settle(st, Rejected(reason, errs)))

\* reject(reason)
reject(st, reason, errs) ==
    cleanup(Settle([st EXCEPT !.isRejected = TRUE, !.isResolved = TRUE],
                   Rejected(reason, errs)))

\* resolve(value)
resolve(st, value) == cleanup(Settle(st, Fulfilled(value)))

\* result.length of the sparse array
ResultLength(res) ==
    IF DOMAIN res = {} THEN 0
    ELSE 1 + CHOOSE m \in DOMAIN res : \A k \in DOMAIN res : k <= m

ResultAt(res, k) == IF k \in DOMAIN res THEN res[k] ELSE undefined

\* The array handed to resolve(): `result` itself when nothing was skipped,
\* else the entries of `result` whose index is not in skippedIndexesMap.
RECURSIVE PureFrom(_, _, _)
PureFrom(res, skipped, k) ==
    IF k >= ResultLength(res) THEN <<>>
    ELSE IF k \in skipped THEN PureFrom(res, skipped, k + 1)
    ELSE <<ResultAt(res, k)>> \o PureFrom(res, skipped, k + 1)

\* pureResult as it would be if the skipped indexes were not dropped.
pureResultKeepsSkips(res, skipped) == PureFrom(res, {}, 0)

pureResult(res, skipped) == PureFrom(res, skipped, 0)

\* The first lines of next(): return when settled, else call iterator.next()
\* and suspend on its answer.  `who` is the caller that is waiting for next().
\* next() without the isResolved guard.
nextUnguarded(st, who) ==
    [st EXCEPT !.pulled = @ + 1,
               !.pending = Append(@, [by |-> who.by, idx |-> who.idx,
                                      pos |-> st.pulled + 1,
                                      late |-> st.isIterableDone])]

next(st, who) ==
    IF st.isResolved THEN st
    ELSE [st EXCEPT !.pulled = @ + 1,
                    !.pending = Append(@, [by |-> who.by, idx |-> who.idx,
                                           pos |-> st.pulled + 1,
                                           late |-> st.isIterableDone])]

\* next() after the pull answered `done`.
Shutdown(st) ==
    LET s1 == [st EXCEPT !.currentIndex = @ + 1, !.isIterableDone = TRUE] IN
    IF s1.resolvingCount = 0 /\ ~s1.isResolved
    THEN IF ~stopOnError /\ Len(s1.errors) > 0
         THEN reject(s1, AggregateError, s1.errors)
         ELSE resolve([s1 EXCEPT !.isResolved = TRUE],
                      pureResult(s1.result, s1.skippedIndexesMap))
    ELSE s1

\* next() as it would be if it read currentIndex without advancing it.
StartTaskSameIndex(st, pos) ==
    [st EXCEPT !.resolvingCount = @ + 1,
               !.tasks = (st.currentIndex :> [pc |-> "item", pos |-> pos]) @@ @]

\* next() after the pull answered an item: the index is taken, the counter
\* raised and the detached task started; it suspends on `await nextItem.value`.
StartTask(st, pos) ==
    [st EXCEPT !.currentIndex = @ + 1,
               !.resolvingCount = @ + 1,
               !.tasks = @ @@ (st.currentIndex :> [pc |-> "item", pos |-> pos])]

\* The catch block as it would be if errors were collected newest first.
TaskCatchUnshift(st, idx, error) ==
    LET s1 == [st EXCEPT !.failures = Append(@, error)] IN
    IF stopOnError
    THEN reject(s1, error, <<error>>)
    ELSE next([s1 EXCEPT !.errors = <<error>> \o @, !.resolvingCount = @ - 1],
              [by |-> "catch", idx |-> idx])

\* The catch block of the detached task.
TaskCatch(st, idx, error) ==
    LET s1 == [st EXCEPT !.failures = Append(@, error)] IN
    IF stopOnError
    THEN reject(s1, error, <<error>>)
    ELSE next([s1 EXCEPT !.errors = Append(@, error), !.resolvingCount = @ - 1],
              [by |-> "catch", idx |-> idx])

\* `await next()` threw in the caller `req`.
NextThrew(st, req, error) ==
    CASE req.by = "runner" ->
            reject([st EXCEPT !.runner.pc = "done", !.failures = Append(@, error)],
                   error, <<error>>)
      [] req.by = "try" -> TaskCatch(st, req.idx, error)
      [] OTHER ->
            reject([st EXCEPT !.failures = Append(@, error)], error, <<error>>)

\* The runner is handed the outcome of the next() it awaits.
RunnerAwaits(st, req) ==
    IF req.by = "runner" THEN [st EXCEPT !.runner.pc = "resume"] ELSE st

\* The loop as it would be with `i <= concurrency`.
RunnerCallsOffByOne(st, i) ==
    IF Below(i, concurrency + 1)
    THEN LET s1 == next([st EXCEPT !.runner = [pc |-> "pulling", i |-> i]],
                        [by |-> "runner", idx |-> 0]) IN
         IF st.isResolved THEN [s1 EXCEPT !.runner.pc = "resume"] ELSE s1
    ELSE [st EXCEPT !.runner = [pc |-> "done", i |-> i]]

\* The loop of the runner: `i < concurrency`, then next().
RunnerCalls(st, i) ==
    IF Below(i, concurrency)
    THEN LET s1 == next([st EXCEPT !.runner = [pc |-> "pulling", i |-> i]],
                        [by |-> "runner", idx |-> 0]) IN
         IF st.isResolved THEN [s1 EXCEPT !.runner.pc = "resume"] ELSE s1
    ELSE [st EXCEPT !.runner = [pc |-> "done", i |-> i]]

\* The call: the arguments are validated (a throw in the promise executor
\* rejects the promise), the signal is looked at, the listener registered, and
\* the runner enters its loop, up to its first suspension.
pMap ==
    /\ runner.pc = "init"
    /\ LET s0 == [Cur EXCEPT !.abortedAtCall = (signal = "aborted")]
           s1 == IF signal = "aborted" THEN reject(s0, AbortReason, <<AbortReason>>)
                 ELSE s0
           s2 == IF signal # "none" THEN [s1 EXCEPT !.listening = TRUE] ELSE s1
           v == pMapValidation
       IN IF v # 0
          THEN Commit(Settle([s0 EXCEPT !.runner.pc = "done"],
                             Rejected(TypeError(v), <<TypeError(v)>>)))
          ELSE Commit(RunnerCalls(s2, 0))
    /\ UNCHANGED <<argVars, iterVars>>

\* A runner loop that leaves on a rejection only.
RunnerResumeIgnoresDone ==
    /\ runner.pc = "resume"
    /\ IF isRejected
       THEN Commit([Cur EXCEPT !.runner.pc = "done"])
       ELSE Commit(RunnerCalls(Cur, runner.i + 1))
    /\ UNCHANGED <<argVars, iterVars>>

\* The runner after `await next()`: leave the loop, or the next round.
RunnerResume ==
    /\ runner.pc = "resume"
    /\ IF isIterableDone \/ isRejected
       THEN Commit([Cur EXCEPT !.runner.pc = "done"])
       ELSE Commit(RunnerCalls(Cur, runner.i + 1))
    /\ UNCHANGED <<argVars, iterVars>>

\* The oldest pending iterator.next() is answered and next() runs on.
PullResolve ==
    /\ pending # << >>
    /\ LET req == Head(pending)
           e == SourceAt(iterable, req.pos)
           s0 == [Cur EXCEPT !.pending = Tail(@)]
       IN CASE e = "T" -> Commit([s0 EXCEPT !.thrown = @ \cup {req}])
            [] e = "done" -> Commit(RunnerAwaits(Shutdown(s0), req))
            [] OTHER -> Commit(RunnerAwaits(StartTask(s0, req.pos), req))
    /\ UNCHANGED <<argVars, iterVars>>

\* The caller of a next() that rejected resumes at its `await next()`, which
\* throws into the caller's catch.
NextRejected(req) ==
    /\ req \in thrown
    /\ Commit(NextThrew([Cur EXCEPT !.thrown = @ \ {req}], req,
                        Error("source", req.pos)))
    /\ UNCHANGED <<argVars, iterVars>>

\* `await nextItem.value` is answered in the task of index idx.
ItemResolve(idx) ==
    /\ idx \in DOMAIN tasks
    /\ tasks[idx].pc = "item"
    /\ LET pos == tasks[idx].pos IN
       IF iterable[pos] = "R"
       THEN Commit(TaskCatch([Cur EXCEPT !.tasks[idx].pc = "failed"], idx,
                             Error("item", pos)))
       ELSE IF isResolved
       THEN Commit([Cur EXCEPT !.tasks[idx].pc = "dropped"])
       ELSE Commit([Cur EXCEPT !.tasks[idx].pc = "mapping"])
    /\ UNCHANGED <<argVars, iterVars>>

\* `await mapper(element, index)` is answered in the task of index idx.
MapperSettle(idx) ==
    /\ idx \in DOMAIN tasks
    /\ tasks[idx].pc = "mapping"
    /\ LET pos == tasks[idx].pos
           value == IF iterable[pos] = "S" THEN pMapSkip ELSE pos
       IN
       IF iterable[pos] = "F"
       THEN Commit(TaskCatch([Cur EXCEPT !.tasks[idx].pc = "failed"], idx,
                             Error("mapper", pos)))
       ELSE Commit(next([Cur EXCEPT
                            !.skippedIndexesMap =
                                IF value = pMapSkip THEN @ \cup {idx} ELSE @,
                            !.result = (idx :> value) @@ @,
                            !.resolvingCount = @ - 1,
                            !.tasks[idx].pc = "done",
                            !.overtaken =
                                @ \/ \E j \in DOMAIN tasks :
                                        /\ tasks[j].pos < pos
                                        /\ tasks[j].pc \in {"item", "mapping"}],
                        [by |-> "try", idx |-> idx]))
    /\ UNCHANGED <<argVars, iterVars>>

\* A listener that reports the failures collected so far instead of the reason.
signalListenerReportsCollected ==
    /\ signal = "idle"
    /\ listening
    /\ signal' = "aborted"
    /\ IF ~stopOnError /\ errors # << >>
       THEN Commit(reject(Cur, AggregateError, errors))
       ELSE Commit(reject(Cur, AbortReason, <<AbortReason>>))
    /\ UNCHANGED <<iterable, falsyErrors, inputIsIterable, mapperIsFunction, concurrency,
                   backpressure, stopOnError, iterVars>>

\* The signal fires while signalListener is registered: the listener rejects.
\* (Once cleanup() has removed the listener the program no longer sees the signal.)
Abort ==
    /\ signal = "idle"
    /\ listening
    /\ signal' = "aborted"
    /\ Commit(reject(Cur, AbortReason, <<AbortReason>>))
    /\ UNCHANGED <<iterable, falsyErrors, inputIsIterable, mapperIsFunction, concurrency,
                   backpressure, stopOnError, iterVars>>

\* ------------------------------------------------------------- pMapIterable
\* What a handle's promise is fulfilled with: {done, value} or {error}.
NoResult == [done |-> FALSE, value |-> undefined, error |-> Error("none", 0)]

IterCur ==
    [promises |-> promises, handles |-> handles,
     runningMappersCount |-> runningMappersCount, isDone |-> isDone,
     index |-> index, itPulled |-> itPulled, itPending |-> itPending,
     consumer |-> consumer, yielded |-> yielded, passed |-> passed]

IterCommit(st) ==
    /\ promises' = st.promises
    /\ handles' = st.handles
    /\ runningMappersCount' = st.runningMappersCount
    /\ isDone' = st.isDone
    /\ index' = st.index
    /\ itPulled' = st.itPulled
    /\ itPending' = st.itPending
    /\ consumer' = st.consumer
    /\ yielded' = st.yielded
    /\ passed' = st.passed

IterClosure(pc) ==
    /\ promises = << >>
    /\ handles = << >>
    /\ runningMappersCount = 0
    /\ isDone = FALSE
    /\ index = 0
    /\ itPulled = 0
    /\ itPending = << >>
    /\ consumer = [pc |-> pc, error |-> Error("none", 0)]
    /\ yielded = << >>
    /\ passed = FALSE

\* pMapIterable has not been called yet.
IterFresh == IterClosure("init")

\* The behaviour is a call of pMap: there is no generator.
IterIdle == IterClosure("idle")

\* A new handle: its async function has called iterator.next() and is suspended.
Spawned(st, atFront) ==
    LET h == st.itPulled + 1 IN
    [st EXCEPT !.itPulled = h,
               !.itPending = Append(@, h),
               !.handles = @ @@ (h :> [pc |-> "pulling", idx |-> undefined,
                                       rejected |-> FALSE, res |-> NoResult]),
               !.promises = IF atFront THEN <<h>> \o @ ELSE Append(@, h)]

\* trySpawn() as it would be if it ignored the backpressure limit.
trySpawnNoBackpressure(st) ==
    IF st.isDone \/ ~Below(st.runningMappersCount, concurrency)
    THEN st
    ELSE Spawned(st, FALSE)

\* trySpawn() as it would be if it queued the new handle first (unshift).
trySpawnUnshift(st) ==
    IF st.isDone \/ ~(Below(st.runningMappersCount, concurrency)
                       /\ Below(Len(st.promises), backpressure))
    THEN st
    ELSE Spawned(st, TRUE)

\* trySpawn()
trySpawn(st) ==
    IF st.isDone \/ ~(Below(st.runningMappersCount, concurrency)
                       /\ Below(Len(st.promises), backpressure))
    THEN st
    ELSE Spawned(st, FALSE)

\* promises.indexOf(promise), zero-based, -1 when absent
IndexOf(q, h) ==
    IF \E k \in DOMAIN q : q[k] = h
    THEN (CHOOSE k \in DOMAIN q : q[k] = h /\ \A j \in 1..(k - 1) : q[j] # h) - 1
    ELSE -1

\* promises.splice(i, 1), i zero-based
Splice(q, i) == SubSeq(q, 1, i) \o SubSeq(q, i + 2, Len(q))

\* The handle's promise is fulfilled with res.
Fulfil(st, h, res) == [st EXCEPT !.handles[h].pc = "settled", !.handles[h].res = res]

\* The call: the arguments are validated, synchronously, and the generator
\* object is returned with its body not yet started.
pMapIterable ==
    /\ consumer.pc = "init"
    /\ LET v == pMapIterableValidation IN
       IF v # 0
       THEN IterCommit([IterCur EXCEPT !.consumer = [pc |-> "threw",
                                                     error |-> TypeError(v)]])
       ELSE IterCommit([IterCur EXCEPT !.consumer.pc = "created"])
    /\ UNCHANGED <<argVars, mapVars>>

\* The first call of the consumer: the generator body starts, calls trySpawn()
\* and enters its loop.
IterStart ==
    /\ consumer.pc = "created"
    /\ LET s1 == trySpawn(IterCur) IN
       IterCommit([s1 EXCEPT !.consumer.pc =
                        IF Len(s1.promises) > 0 THEN "await" ELSE "returned"])
    /\ UNCHANGED <<argVars, mapVars>>

\* The oldest pending iterator.next() is answered in its handle.
IterPullResolve ==
    /\ itPending # << >>
    /\ LET h == Head(itPending)
           e == SourceAt(iterable, h)
           s0 == [IterCur EXCEPT !.itPending = Tail(@)]
       IN CASE e = "T" ->
                 IterCommit([s0 EXCEPT !.handles[h].pc = "settled",
                                       !.handles[h].rejected = TRUE,
                                       !.handles[h].res.error = Error("source", h)])
            [] e = "done" ->
                 IterCommit(Fulfil(s0, h, [NoResult EXCEPT !.done = TRUE]))
            [] OTHER ->
                 IterCommit(trySpawn([s0 EXCEPT !.runningMappersCount = @ + 1,
                                                !.handles[h].pc = "item"]))
    /\ UNCHANGED <<argVars, mapVars>>

\* The catch of the handle's async function: no further spawn, and the handle
\* is fulfilled with {error}.
trySpawnCatch(st, h, error) ==
    Fulfil([st EXCEPT !.isDone = TRUE], h, [NoResult EXCEPT !.error = error])

\* `await value` is answered in handle h: the index is taken and the mapper called.
IterItemResolve(h) ==
    /\ h \in DOMAIN handles
    /\ handles[h].pc = "item"
    /\ IF iterable[h] = "R"
       THEN IterCommit(trySpawnCatch(IterCur, h, Error("item", h)))
       ELSE IterCommit([IterCur EXCEPT !.handles[h].pc = "mapping",
                                       !.handles[h].idx = index,
                                       !.index = @ + 1])
    /\ UNCHANGED <<argVars, mapVars>>

\* `await mapper(...)` is answered in handle h.
IterMapperSettle(h) ==
    /\ h \in DOMAIN handles
    /\ handles[h].pc = "mapping"
    /\ LET s0 == [IterCur EXCEPT !.passed =
                     @ \/ \E j \in DOMAIN handles :
                             j < h /\ handles[j].pc \in {"item", "mapping"}]
       IN CASE iterable[h] = "F" ->
                 IterCommit(trySpawnCatch(s0, h, Error("mapper", h)))
            [] iterable[h] = "S" ->
                 IterCommit([s0 EXCEPT !.runningMappersCount = @ - 1,
                                       !.handles[h].pc = "then",
                                       !.handles[h].res =
                                           [NoResult EXCEPT !.done = TRUE,
                                                            !.value = pMapSkip]])
            [] OTHER ->
                 IterCommit(Fulfil(trySpawn([s0 EXCEPT !.runningMappersCount = @ - 1]),
                                   h, [NoResult EXCEPT !.value = h]))
    /\ UNCHANGED <<argVars, mapVars>>

\* The .then() callback of a handle whose mapper returned pMapSkip.
IterThen(h) ==
    /\ h \in DOMAIN handles
    /\ handles[h].pc = "then"
    /\ LET i == IndexOf(promises, h) IN
       IterCommit([IterCur EXCEPT !.handles[h].pc = "settled",
                                  !.promises = IF i > 0 THEN Splice(@, i) ELSE @])
    /\ UNCHANGED <<argVars, mapVars>>

\* `if (error)`: the result has an error property and its value is truthy.
truthy(error) == error # Error("none", 0) /\ error.pos \notin falsyErrors

\* The loop condition of the generator body.
LoopOrReturn(st) ==
    [st EXCEPT !.consumer.pc = IF Len(st.promises) > 0 THEN "await" ELSE "returned"]

\* `await promises[0]` is answered: the body of the loop, up to the next
\* suspension (the yield, the next await, or the end of the generator).
IterTake ==
    /\ consumer.pc = "await"
    /\ handles[Head(promises)].pc = "settled"
    /\ LET h == Head(promises)
           r == handles[h].res
           s0 == [IterCur EXCEPT !.promises = Tail(@)]
       IN IF handles[h].rejected
          THEN IterCommit([IterCur EXCEPT !.consumer = [pc |-> "thrown", error |-> r.error]])
          ELSE IF truthy(r.error)
          THEN IterCommit([s0 EXCEPT !.consumer = [pc |-> "thrown", error |-> r.error]])
          ELSE IF r.done
          THEN IterCommit([s0 EXCEPT !.consumer.pc = "returned"])
          ELSE LET s1 == trySpawn(s0) IN
               IF r.value = pMapSkip
               THEN IterCommit(LoopOrReturn(s1))
               ELSE IterCommit([s1 EXCEPT !.consumer.pc = "yield",
                                          !.yielded = Append(@, r.value)])
    /\ UNCHANGED <<argVars, mapVars>>

\* The consumer asks for the next value: the generator resumes after the yield.
IterNext ==
    /\ consumer.pc = "yield"
    /\ IterCommit(LoopOrReturn(IterCur))
    /\ UNCHANGED <<argVars, mapVars>>

\* The consumer abandons the iteration (break): the generator returns at the yield.
IterReturn ==
    /\ consumer.pc = "yield"
    /\ IterCommit([IterCur EXCEPT !.consumer.pc = "abandoned"])
    /\ UNCHANGED <<argVars, mapVars>>


MapClosure(pc) ==
    /\ result = << >>
    /\ errors = << >>
    /\ skippedIndexesMap = {}
    /\ isRejected = FALSE
    /\ isResolved = FALSE
    /\ isIterableDone = FALSE
    /\ resolvingCount = 0
    /\ currentIndex = 0
    /\ pulled = 0
    /\ pending = << >>
    /\ thrown = {}
    /\ runner = [pc |-> pc, i |-> 0]
    /\ tasks = << >>
    /\ settled = Pending
    /\ listening = FALSE
    /\ abortedAtCall = FALSE
    /\ failures = << >>
    /\ overtaken = FALSE

\* pMap has not been called yet.
MapFresh == MapClosure("init")

\* The behaviour is a call of pMapIterable: there is no pMap promise.
MapIdle == MapClosure("idle")

\* The calls of pMap whose arguments pass validation.
InitMap ==
    /\ iterable \in Sources
    /\ falsyErrors = {}
    /\ inputIsIterable = TRUE
    /\ mapperIsFunction = TRUE
    /\ concurrency \in Concurrencies
    /\ backpressure = concurrency
    /\ stopOnError \in BOOLEAN
    /\ signal \in {"none", "idle", "aborted"}
    /\ MapFresh
    /\ IterFresh

NextMap ==
    \/ pMap
    \/ RunnerResume
    \/ PullResolve
    \/ \E req \in thrown : NextRejected(req)
    \/ \E idx \in DOMAIN tasks : ItemResolve(idx)
    \/ \E idx \in DOMAIN tasks : MapperSettle(idx)
    \/ Abort

SpecMap == InitMap /\ [][NextMap]_vars


\* The calls of pMapIterable whose arguments pass validation and whose
\* failures throw Error objects.
InitIter ==
    /\ iterable \in StreamSources
    /\ falsyErrors = {}
    /\ inputIsIterable = TRUE
    /\ mapperIsFunction = TRUE
    /\ concurrency \in Concurrencies
    /\ backpressure \in {b \in Backpressures : b >= concurrency}
    /\ stopOnError = TRUE
    /\ signal = "none"
    /\ MapFresh
    /\ IterFresh

NextIter ==
    \/ pMapIterable
    \/ IterStart
    \/ IterPullResolve
    \/ \E h \in DOMAIN handles : IterItemResolve(h)
    \/ \E h \in DOMAIN handles : IterMapperSettle(h)
    \/ \E h \in DOMAIN handles : IterThen(h)
    \/ IterTake
    \/ IterNext
    \/ IterReturn

SpecIter == InitIter /\ [][NextIter]_vars

\* The calls of pMapIterable whose arguments pass validation, whatever the
\* failing items and mappers throw: an Error or a falsy value.
InitIterThrows ==
    /\ iterable \in StreamSources
    /\ falsyErrors \in SUBSET {p \in DOMAIN iterable : iterable[p] \in {"F", "R"}}
    /\ inputIsIterable = TRUE
    /\ mapperIsFunction = TRUE
    /\ concurrency \in Concurrencies
    /\ backpressure \in {b \in Backpressures : b >= concurrency}
    /\ stopOnError = TRUE
    /\ signal = "none"
    /\ MapFresh
    /\ IterFresh

SpecIterThrows == InitIterThrows /\ [][NextIter]_vars

\* Every call of either function, the arguments validation refuses included.
\* An input that is no iterable has no entries.
InitArgs ==
    /\ inputIsIterable \in BOOLEAN
    /\ iterable \in (IF inputIsIterable THEN Sources ELSE {<< >>})
    /\ falsyErrors = {}
    /\ mapperIsFunction \in BOOLEAN
    /\ concurrency \in AnyConcurrencies
    /\ \/ /\ backpressure = concurrency
          /\ stopOnError \in BOOLEAN
          /\ signal \in {"none", "idle", "aborted"}
          /\ MapFresh
          /\ IterIdle
       \/ /\ backpressure \in AnyBackpressures
          /\ stopOnError = TRUE
          /\ signal = "none"
          /\ MapIdle
          /\ IterFresh

NextArgs == NextMap \/ NextIter

SpecArgs == InitArgs /\ [][NextArgs]_vars

\* ------------------------------------------------------------- claims on pMap
NoFailure == \A k \in DOMAIN iterable : iterable[k] \in {"V", "S"}

NoTraversalFailure == \A k \in DOMAIN iterable : iterable[k] # "T"

NotCancelled == signal # "aborted"

\* The positions whose entry is in `kinds`, in increasing order.
RECURSIVE PositionsFrom(_, _, _)
PositionsFrom(src, kinds, p) ==
    IF p > Len(src) THEN << >>
    ELSE (IF src[p] \in kinds THEN <<p>> ELSE << >>) \o PositionsFrom(src, kinds, p + 1)

ExpectedOutput == PositionsFrom(iterable, {"V"}, 1)

RunningMappers == {i \in DOMAIN tasks : tasks[i].pc = "mapping"}

Range(seq) == {seq[k] : k \in DOMAIN seq}

\* C1: when no transformation fails and the call is not cancelled, pMap settles
\* only by fulfilling with the values of the non-skipped items in input order.
C1_BatchOutputInInputOrder ==
    (NoFailure /\ NotCancelled /\ settled.state # "pending")
        => settled = Fulfilled(ExpectedOutput)

C1_Witness ==
    /\ NoFailure /\ NotCancelled
    /\ settled.state = "fulfilled"
    /\ overtaken
    /\ \E k \in DOMAIN iterable : iterable[k] = "S"
    /\ settled.value # << >>

\* C2: the mapper invocations started and not yet settled never outnumber
\* `concurrency`.
C2_RunningWithinConcurrency == Cardinality(RunningMappers) <= concurrency

C2_Witness ==
    /\ Cardinality(RunningMappers) = concurrency
    /\ pulled < Len(iterable)
    /\ settled.state = "pending"

\* C7: with stopOnError, once a unit has failed (its item rejected or its
\* mapper threw) before any other failure, the promise is rejected with exactly
\* that first failure, whatever happens afterwards.
C7_FailFastFirstError ==
    (stopOnError /\ NotCancelled /\ failures # << >>
       /\ failures[1].kind \in {"mapper", "item"})
        => settled = Rejected(failures[1], <<failures[1]>>)

C7_Witness ==
    /\ stopOnError /\ NotCancelled
    /\ Len(failures) >= 2
    /\ failures[1].kind \in {"mapper", "item"}
    /\ failures[2] # failures[1]
    /\ settled = Rejected(failures[1], <<failures[1]>>)

\* The errors of the items that fail (item rejection or mapper failure).
FailingItems == {p \in DOMAIN iterable : iterable[p] \in {"F", "R"}}

ErrorOf(p) == Error(IF iterable[p] = "R" THEN "item" ELSE "mapper", p)

\* C8: without stopOnError, traversal failure or cancellation, pMap settles
\* by fulfilling when nothing failed, and otherwise by rejecting with an
\* aggregate error that lists the error of every failing item once, in the
\* order the failures happened.
C8_CollectAllErrors ==
    (~stopOnError /\ NoTraversalFailure /\ NotCancelled /\ settled.state # "pending")
        => IF FailingItems = {}
           THEN settled.state = "fulfilled"
           ELSE /\ settled = Rejected(AggregateError, failures)
                /\ Len(failures) = Cardinality(FailingItems)
                /\ Range(failures) = {ErrorOf(p) : p \in FailingItems}

C8_Witness ==
    /\ ~stopOnError /\ NoTraversalFailure /\ NotCancelled
    /\ settled.state = "rejected"
    /\ settled.reason = AggregateError
    /\ Len(settled.errors) = 2
    /\ settled.errors[1].pos > settled.errors[2].pos

\* C9: without stopOnError and without cancellation, pMap is settled only when
\* the source is exhausted and no started transformation is still running.
C9_SettlesAfterAllFinished ==
    (~stopOnError /\ NotCancelled /\ settled.state # "pending")
        => /\ RunningMappers = {}
           /\ isIterableDone \/ \E k \in DOMAIN failures : failures[k].kind = "source"

\* C10: called with an already aborted signal, pMap rejects with the signal's
\* reason, pulls nothing from the source and invokes no transformation.
C10_AbortedBeforeCall ==
    (signal = "aborted" /\ (runner.pc = "init" \/ abortedAtCall))
        => /\ runner.pc # "init" => settled = Rejected(AbortReason, <<AbortReason>>)
           /\ pulled = 0
           /\ tasks = << >>

C10_Witness ==
    /\ abortedAtCall
    /\ runner.pc = "done"
    /\ iterable # << >>
    /\ settled = Rejected(AbortReason, <<AbortReason>>)
    /\ pulled = 0

\* C11: when the signal fires while pMap is unsettled, the promise is rejected
\* with exactly the signal's reason, under either error policy and whatever
\* failures were collected before, and nothing that finishes later changes it.
C11_AbortMidFlight ==
    (signal = "aborted" /\ ~abortedAtCall /\ runner.pc # "init")
        => settled = Rejected(AbortReason, <<AbortReason>>)

C11_Witness ==
    /\ ~stopOnError /\ concurrency = 1
    /\ signal = "aborted" /\ ~abortedAtCall
    /\ errors # << >>
    /\ \E i \in DOMAIN tasks : tasks[i].pc = "done" /\ i > 0
    /\ settled = Rejected(AbortReason, <<AbortReason>>)

\* The errors thrown by advancing the source that have been caught so far.
SourceFailures == {e \in Range(failures) : e.kind = "source"}

\* C15: once advancing the source has thrown and been caught, a settled pMap is
\* rejected per the policy: with stopOnError by a failure itself, without it by
\* an aggregate error that lists the source's error and every failure caught.
C15_SourceFailurePerPolicy ==
    (NotCancelled /\ SourceFailures # {} /\ settled.state # "pending")
        => /\ settled.state = "rejected"
           /\ IF stopOnError
              THEN settled.reason \in Range(failures)
              ELSE /\ settled.reason = AggregateError
                   /\ Range(settled.errors) \cap SourceFailures # {}

\* The call has been made and no continuation is left to run: every pull has
\* been answered, every task has run to its end and the runner has left its loop.
Quiescent ==
    /\ runner.pc = "done"
    /\ pending = << >>
    /\ thrown = {}
    /\ \A i \in DOMAIN tasks : tasks[i].pc \in {"done", "failed", "dropped"}

\* C16: on a finite source with transformations that all settle, the promise
\* of pMap settles: when nothing is left to run, it is not pending.
C16_EventuallySettles == Quiescent => settled.state # "pending"

\* The task units started and not yet finished.
UnfinishedTasks == {i \in DOMAIN tasks : tasks[i].pc \in {"item", "mapping"}}

\* C18: resolvingCount stays within 0..concurrency and, until pMap settles, is
\* the number of task units started and not yet finished.
C18_ResolvingCountIsRunningUnits ==
    /\ 0 <= resolvingCount
    /\ resolvingCount <= concurrency
    /\ settled.state = "pending" => resolvingCount = Cardinality(UnfinishedTasks)

\* C19: once the promise of pMap has settled, no step issues a pull, no step
\* invokes the mapper, and no step changes the settlement: the mappers
\* invoked before run on and their outcomes are dropped.
C19_NoNewWorkAfterSettlement ==
    [][settled.state # "pending"
          => /\ pulled' = pulled
             /\ RunningMappers' \subseteq RunningMappers
             /\ settled' = settled]_vars

\* Two pulls by the runner and none by a task: the task that is done finished
\* after the rejection, and the other item arrived after it.
C19_Witness ==
    /\ concurrency = 2
    /\ pulled = 2
    /\ settled.state = "rejected"
    /\ \E i \in DOMAIN tasks : tasks[i].pc = "done"
    /\ \E i \in DOMAIN tasks : tasks[i].pc = "dropped"

\* C20 as stated: no pull is issued once a pull has answered end-of-source.
C20_NoPullAfterExhaustion ==
    \A k \in DOMAIN pending : ~pending[k].late

\* C20, amended: once a pull has answered end-of-source the runner loop issues
\* no further pull; a pull issued after that comes from a task unit that has
\* just finished, one pull per finished unit, while pMap is unsettled.
C20_NoRunnerPullAfterExhaustion ==
    \A k \in DOMAIN pending :
        pending[k].late
            => /\ pending[k].by \in {"try", "catch"}
               /\ tasks[pending[k].idx].pc \in {"done", "failed"}
               /\ \A j \in DOMAIN pending :
                     (pending[j].late /\ pending[j].idx = pending[k].idx)
                         => (j = k \/ pending[j].by # pending[k].by)

C20_Witness ==
    /\ isIterableDone
    /\ settled.state = "pending"
    /\ \E k \in DOMAIN pending :
          /\ pending[k].late
          /\ pending[k].by = "try"
          /\ tasks[pending[k].idx].pc = "done"

\* C22: once a pull of pMap has thrown, no further pull is issued, under either
\* error policy and whoever awaited the pull: a step that issues a pull is
\* never one in which, or before which, a throwing pull was caught.
C22_NoPullAfterSourceFailure ==
    [][pulled' # pulled => SourceFailures' = {}]_vars

\* The positions of the source that hold an item, in pull order, and how many
\* of them have been handed out by an answered pull.
ItemPositions == PositionsFrom(iterable, {"V", "S", "F", "R"}, 1)

ItemsAnswered ==
    Cardinality({p \in 1..(pulled - Len(pending)) : p \in Range(ItemPositions)})

\* C24: the items pulled by pMap get the indexes 0, 1, 2, ... in pull order,
\* one task unit each; a unit invokes the mapper at most once and never runs
\* again once it has ended; slot i of the result is written at most once, by
\* the unit of index i with the outcome of its own item.
C24_IndexesAndSlotsOnce ==
    [][/\ DOMAIN tasks' = 0..(ItemsAnswered' - 1)
       /\ \A i \in DOMAIN tasks' : tasks'[i].pos = ItemPositions[i + 1]
       /\ \A i \in DOMAIN result' :
             /\ i \in DOMAIN tasks'
             /\ tasks'[i].pc = "done"
             /\ result'[i] \in {tasks'[i].pos, pMapSkip}
       /\ \A i \in DOMAIN tasks :
             /\ tasks'[i].pos = tasks[i].pos
             /\ tasks'[i].pc = "mapping" => tasks[i].pc \in {"item", "mapping"}
             /\ tasks[i].pc \in {"done", "failed", "dropped"} => tasks'[i] = tasks[i]
       /\ \A i \in DOMAIN result :
             /\ result'[i] = result[i]
             /\ tasks[i].pc = "done"]_vars

C24_Witness ==
    /\ concurrency >= 2
    /\ DOMAIN result = {0, 1}
    /\ overtaken
    /\ result[0] = tasks[0].pos /\ result[1] = tasks[1].pos
    /\ tasks[0].pos < tasks[1].pos


\* ------------------------------------------------------------- claims on pMapIterable
StreamRunningMappers == {h \in DOMAIN handles : handles[h].pc = "mapping"}

\* The handles of the queue whose outcome is complete and not yet consumed.
CompletedUnconsumed ==
    {k \in DOMAIN promises : handles[promises[k]].pc = "settled"}

\* C3: in pMapIterable the mapper invocations started and not yet settled
\* never outnumber `concurrency`.
C3_StreamRunningWithinConcurrency ==
    Cardinality(StreamRunningMappers) <= concurrency

\* C4: the queue of handles never holds more than `backpressure` entries, and
\* so neither do the completed outcomes that wait for the consumer.
C4_QueueWithinBackpressure ==
    /\ Len(promises) <= backpressure
    /\ Cardinality(CompletedUnconsumed) <= backpressure

C4_Witness ==
    /\ backpressure < Len(iterable)
    /\ Len(promises) = backpressure
    /\ Cardinality(CompletedUnconsumed) = backpressure
    /\ \A k \in DOMAIN promises : iterable[promises[k]] = "V"
    /\ consumer.pc = "yield"

\* C5: the values of the items are yielded in strictly increasing input
\* position.
C5_YieldedInInputOrder ==
    \A i, j \in DOMAIN yielded :
        (i < j /\ yielded[i] # undefined /\ yielded[j] # undefined)
            => yielded[i] < yielded[j]

C5_Witness ==
    /\ Len(yielded) >= 2
    /\ passed
    /\ \E h \in DOMAIN handles :
          /\ yielded[1] < h /\ h < yielded[2]
          /\ handles[h].pc = "settled"
          /\ handles[h].res.value = pMapSkip

\* C6: when nothing fails and the consumer keeps pulling, the sequence ends
\* only after the value of every item that was not skipped has been yielded,
\* each once and in order.
C6_StreamYieldsEveryValue ==
    (NoFailure /\ consumer.pc \in {"returned", "thrown"})
        => (consumer.pc = "returned" /\ yielded = ExpectedOutput)

\* C13: in pMapIterable the index handed to the mapper with an item is the
\* zero-based pull position of that item (the source has no throwing pull, so
\* the item of handle h is the h-th one pulled).
C13_StreamIndexIsPullPosition ==
    NoTraversalFailure
        => \A h \in DOMAIN handles :
              handles[h].idx # undefined => handles[h].idx = h - 1

\* The earliest position of the source whose item or transformation fails.
FirstFailing == CHOOSE p \in FailingItems : \A q \in FailingItems : p <= q

\* C14: in pMapIterable, when some item fails, none is skipped and no pull
\* throws, the consumer receives in order the values of the items before the
\* earliest-positioned failing one and then that item's error, whichever item
\* failed first in time; the sequence never ends normally.
C14_StreamRaisesEarliestPositionedFailure ==
    (FailingItems # {} /\ \A k \in DOMAIN iterable : iterable[k] \in {"V", "F", "R"})
        => /\ Len(yielded) < FirstFailing
           /\ \A k \in DOMAIN yielded : yielded[k] = k
           /\ consumer.pc # "returned"
           /\ consumer.pc = "thrown"
                 => /\ consumer.error = ErrorOf(FirstFailing)
                    /\ Len(yielded) = FirstFailing - 1

\* Some pull of pMapIterable has answered end-of-source.
ExhaustionObserved ==
    \E h \in DOMAIN handles :
        handles[h].pc = "settled" /\ SourceAt(iterable, h) = "done"

\* C21: once a pull of pMapIterable has answered end-of-source, no step queues
\* a new handle or issues a pull.
C21_NoSpawnAfterExhaustion ==
    [][ExhaustionObserved
          => /\ itPulled' = itPulled
             /\ DOMAIN handles' = DOMAIN handles]_vars

\* C23: when a unit of pMapIterable completes without failure (the count of
\* running mappers drops), with a Value or with Skip, a spawn is attempted in
\* the same step: unless end-of-source was already observed, either a handle
\* is queued or the step ends with no free slot or no room in the queue.
C23_RespawnAfterCompletion ==
    [][(runningMappersCount' < runningMappersCount /\ ~ExhaustionObserved)
          => \/ itPulled' > itPulled
             \/ isDone'
             \/ ~(Below(runningMappersCount', concurrency)
                    /\ Below(Len(promises'), backpressure))]_vars

\* ------------------------------------------------------------- claims on both
\* C12: a call whose input is no iterable, whose mapper is no function, whose
\* concurrency is no integer >= 1 or Infinity or (pMapIterable) whose
\* backpressure is no integer >= concurrency or Infinity fails with a
\* TypeError: pMap's promise is rejected with it, pMapIterable throws it; the
\* source is never pulled and the mapper never invoked.
C12_InvalidArgumentsTypeError ==
    LET refused == \/ ~inputIsIterable
                   \/ ~mapperIsFunction
                   \/ concurrency < 1
        refusedBackpressure == backpressure < concurrency /\ backpressure # Infinity
    IN
    /\ (runner.pc # "idle" /\ refused)
          => /\ pulled = 0 /\ pending = << >> /\ tasks = << >>
             /\ runner.pc # "init"
                   => /\ settled.state = "rejected"
                      /\ settled.reason.kind = "TypeError"
    /\ (consumer.pc # "idle" /\ (refused \/ refusedBackpressure))
          => /\ itPulled = 0 /\ itPending = << >> /\ handles = << >>
             /\ consumer.pc # "init"
                   => /\ consumer.pc = "threw"
                      /\ consumer.error.kind = "TypeError"

C12_Witness ==
    /\ inputIsIterable /\ mapperIsFunction /\ iterable # << >>
    /\ validConcurrency(concurrency)
    /\ backpressure < concurrency
    /\ consumer = [pc |-> "threw", error |-> TypeError(4)]
    /\ itPulled = 0

====
